---- MODULE Spec2Model ----
(***************************************************************************)
(* Model of the MuZeroGoJax self-play pipeline: game.py (self_play,        *)
(* get_labels, rotationally_augment_trajectories) and data.py              *)
(* (sample_game_data), losses.py (the k-step loss loop).  The Go rules     *)
(* engine (gojax) is an external library; it is modelled from the          *)
(* interface the specification gives.                                      *)
(***************************************************************************)
EXTENDS Integers, Sequences, FiniteSets, TLC

VARIABLES pc, rng_key, step, trajectories, keys, rerun, orig,
          max_hypo_steps, sample, game_data, labels,
          data, returned, prev, k_steps

vars == <<pc, rng_key, step, trajectories, keys, rerun, orig,
          max_hypo_steps, sample, game_data, labels,
          data, returned, prev, k_steps>>

\* the variables of the k-step loss loop, and those of the game pipeline
loss_vars == <<data, returned, prev, k_steps>>
game_vars == <<rng_key, trajectories, keys, rerun, orig, max_hypo_steps,
               sample, game_data, labels>>

(***************************************************************************)
(* Program constants and bounds.                                           *)
(***************************************************************************)
\* board_size of the unit tests (B)
BoardSize == 3
\* 2^16: nt_actions is a uint16 array
Uint16Mod == 65536
\* N of self_play and of sample_game_data: the default of --batch_size
BatchSize == 2
\* T, the trajectory length
TrajLen == 4
\* the root key of the self-play test, jax.random.PRNGKey(42)
RootKey == 42
\* jax.random.categorical in self_play returns one of the board points
\* 0 .. MaxSampledPoint-1 or the pass action
MaxSampledPoint == 2
\* N of rotationally_augment_trajectories ranges over 1 .. MaxRotBatch
MaxRotBatch == 5
\* max_hypo_steps ranges over 0 .. MaxHypoSteps
MaxHypoSteps == 3

NumPoints == BoardSize * BoardSize
Points == 0 .. (NumPoints - 1)
PassAction == NumPoints
Batch == 0 .. (BatchSize - 1)
Steps == 0 .. (TrajLen - 1)
None == "None"

Min(a, b) == IF a <= b THEN a ELSE b
Max(a, b) == IF a >= b THEN a ELSE b
Sign(x) == IF x > 0 THEN 1 ELSE IF x < 0 THEN -1 ELSE 0

\* row and column of a flat board index
RowOf(p) == p \div BoardSize
ColOf(p) == p % BoardSize

\* astype('uint16') / dtype='uint16'
ToUint16(x) == x % Uint16Mod

\* the value new_trajectories fills nt_actions with: -1 stored as uint16
Sentinel == ToUint16(-1)

(***************************************************************************)
(* The rules engine (gojax).  A state is the six channels of gojax: the    *)
(* stones of both players (board), the turn (TRUE = white to move), the    *)
(* pass flag and the end flag; the invalid-move channel is derived.        *)
(***************************************************************************)
\* gojax.new_states: the all-zero state
new_state == [board |-> [p \in Points |-> "_"], turn |-> FALSE,
              passed |-> FALSE, ended |-> FALSE]

get_ended(s) == s.ended
get_turns(s) == s.turn

\* a board action is legal on an empty point of a game that has not ended;
\* the pass is always legal
is_legal(s, a) == a >= NumPoints \/ ((~s.ended) /\ s.board[a] = "_")

\* gojax.next_states: an ended game is left as it is; an action >= B^2 is a
\* pass, and two passes in a row end the game; a stone on an occupied point
\* is not placed.  Captures are left out: no position of this model has a
\* group without liberties.
next_states(s, a) ==
    IF s.ended THEN s
    ELSE IF a >= NumPoints
         THEN [s EXCEPT !.turn = ~s.turn, !.passed = TRUE, !.ended = s.passed]
    ELSE IF s.board[a] # "_"
         THEN [s EXCEPT !.turn = ~s.turn, !.passed = FALSE]
    ELSE [s EXCEPT !.board[a] = (IF s.turn THEN "W" ELSE "B"),
                   !.turn = ~s.turn, !.passed = FALSE]

\* two board points next to each other in a row or a column
Adjacent(p, q) ==
    \/ (p + 1 = q /\ ColOf(q) # 0)
    \/ (q + 1 = p /\ ColOf(p) # 0)
    \/ p + BoardSize = q
    \/ q + BoardSize = p

\* the points reached from the set S through empty points
RECURSIVE Flood(_, _)
Flood(S, board) ==
    LET grown == S \cup {q \in Points \ S :
                            board[q] = "_" /\ \E p \in S : Adjacent(p, q)}
    IN IF grown = S THEN S ELSE Flood(grown, board)

ConnectedTo(colour, board) == Flood({p \in Points : board[p] = colour}, board)

\* gojax.compute_areas: the points each player owns, the stones of the
\* player and the empty points that reach only the player's stones; channel
\* 0 is black and channel 1 is white
compute_areas(s) ==
    LET to_black == ConnectedTo("B", s.board)
        to_white == ConnectedTo("W", s.board)
    IN [black |-> to_black \ to_white, white |-> to_white \ to_black]

\* gojax.compute_winning: 1 = black has the larger area, -1 = white, 0 = tie
compute_winning(s) ==
    LET areas == compute_areas(s)
    IN Sign(Cardinality(areas.black) - Cardinality(areas.white))

\* jax.random.fold_in: an injective mix of a key and a salt
fold_in(key, salt) == <<key, salt>>

(***************************************************************************)
(* game.py: new_trajectories, update_trajectories, self_play.              *)
(***************************************************************************)
new_trajectories(batch, len) ==
    [nt_states  |-> [n \in batch |-> [t \in 0 .. (len - 1) |-> new_state]],
     nt_actions |-> [n \in batch |-> [t \in 0 .. (len - 1) |-> Sentinel]]]

\* the values jax.random.categorical can return in self_play: the logits of
\* the policy model are not masked, so every enumerated action is possible
\* in every state
SampledActions == (0 .. (MaxSampledPoint - 1)) \cup {PassAction}

\* the key of one call of update_trajectories.  prior_calls counts the
\* calls of update_trajectories made before this one in the process; the
\* code does not read it.
step_rng_key_stateful(key, stp, prior_calls) == fold_in(key, prior_calls)
step_rng_key(key, stp, prior_calls) == fold_in(key, stp)

\* sample_actions_and_next_states followed by the two .at[].set() writes:
\* the actions go to column stp, their successor states to column stp + 1.
\* (update_trajectories_action_next_column is the variant that stores the
\* actions beside the states they produced, in column stp + 1.)
update_trajectories_action_next_column(traj, stp, actions) ==
    [nt_actions |-> [n \in DOMAIN traj.nt_actions |->
                        [traj.nt_actions[n] EXCEPT ![stp + 1] = ToUint16(actions[n])]],
     nt_states  |-> [n \in DOMAIN traj.nt_states |->
                        [traj.nt_states[n] EXCEPT ![stp + 1] =
                            next_states(traj.nt_states[n][stp], actions[n])]]]
update_trajectories(traj, stp, actions) ==
    [nt_actions |-> [n \in DOMAIN traj.nt_actions |->
                        [traj.nt_actions[n] EXCEPT ![stp] = ToUint16(actions[n])]],
     nt_states  |-> [n \in DOMAIN traj.nt_states |->
                        [traj.nt_states[n] EXCEPT ![stp + 1] =
                            next_states(traj.nt_states[n][stp], actions[n])]]]

\* get_winners: the winner of the last state of every trajectory
get_winners_first_state(nt_states) ==
    [n \in DOMAIN nt_states |-> compute_winning(nt_states[n][0])]
get_winners(nt_states) ==
    [n \in DOMAIN nt_states |->
        compute_winning(nt_states[n][Cardinality(DOMAIN nt_states[n]) - 1])]

\* get_labels: ones, with -1 at the odd columns, times the winner
get_labels(nt_states) ==
    LET winners == get_winners(nt_states)
    IN [n \in DOMAIN nt_states |->
           [t \in DOMAIN nt_states[n] |->
               (IF t % 2 = 1 THEN -1 ELSE 1) * winners[n]]]

\* the number of iterations of the fori_loop of self_play
self_play_iterations_short(len) == len - 2
self_play_iterations(len) == len - 1

(***************************************************************************)
(* Specification Spec: self_play run twice on the same empty trajectories, *)
(* the same model and the same root key, the two runs advancing in step.   *)
(* The policy and jax.random.categorical are functions of their arguments: *)
(* the second run draws the action of the first wherever key and state     *)
(* are the same.                                                           *)
(***************************************************************************)
Init ==
    /\ pc = "self_play"
    /\ rng_key = RootKey
    /\ step = 0
    /\ trajectories = new_trajectories(Batch, TrajLen)
    /\ orig = new_trajectories(Batch, TrajLen)
    /\ keys = << >>
    /\ rerun = [trajectories |-> new_trajectories(Batch, TrajLen), keys |-> << >>]
    /\ max_hypo_steps = 0
    /\ sample = None
    /\ game_data = None
    /\ labels = None
    /\ data = None
    /\ returned = None
    /\ prev = None
    /\ k_steps = 0

UpdateTrajectories ==
    /\ pc = "self_play"
    /\ step < self_play_iterations(TrajLen)
    /\ LET key1 == step_rng_key(rng_key, step, step)
           key2 == step_rng_key(rng_key, step, self_play_iterations(TrajLen) + step)
       IN \E actions \in [Batch -> SampledActions] :
          \E actions2 \in [Batch -> SampledActions] :
             /\ \A n \in Batch :
                   (key1 = key2 /\ rerun.trajectories.nt_states[n][step]
                                     = trajectories.nt_states[n][step])
                   => actions2[n] = actions[n]
             /\ trajectories' = update_trajectories(trajectories, step, actions)
             /\ keys' = Append(keys, key1)
             /\ rerun' = [trajectories |->
                             update_trajectories(rerun.trajectories, step, actions2),
                          keys |-> Append(rerun.keys, key2)]
    /\ step' = step + 1
    /\ pc' = IF step + 1 < self_play_iterations(TrajLen) THEN "self_play" ELSE "done"
    /\ UNCHANGED <<rng_key, orig, max_hypo_steps, sample, game_data, labels,
                   loss_vars>>

\* get_labels on the states self_play returned
GetLabels ==
    /\ pc = "done"
    /\ labels' = get_labels(trajectories.nt_states)
    /\ pc' = "labelled"
    /\ UNCHANGED <<rng_key, step, trajectories, keys, rerun, orig,
                   max_hypo_steps, sample, game_data,
                   loss_vars>>

Next == UpdateTrajectories \/ GetLabels

Spec == Init /\ [][Next]_vars

(***************************************************************************)
(* Claims about self_play.                                                 *)
(***************************************************************************)
\* self_play has returned
Played == pc \in {"done", "labelled"}

\* the columns update_trajectories has written so far
Written == 0 .. (step - 1)

\* C1: after self_play, every step t < T at which state[n,t] is already
\* terminal holds the sentinel -1 as its action.
C1_TerminalActionIsSentinel ==
    Played =>
        \A n \in Batch : \A t \in Steps :
            get_ended(trajectories.nt_states[n][t])
            => trajectories.nt_actions[n][t] = Sentinel

C4_SampledActionsLegal ==
    \A n \in Batch : \A t \in Written :
        (~get_ended(trajectories.nt_states[n][t]))
        => is_legal(trajectories.nt_states[n][t], trajectories.nt_actions[n][t])

\* the first terminal column of instance n, or T when there is none
FirstTerminal(nt_states, n) ==
    IF \E t \in DOMAIN nt_states[n] : get_ended(nt_states[n][t])
    THEN CHOOSE t \in DOMAIN nt_states[n] :
            /\ get_ended(nt_states[n][t])
            /\ \A u \in DOMAIN nt_states[n] : get_ended(nt_states[n][u]) => t <= u
    ELSE Cardinality(DOMAIN nt_states[n])

RECURSIVE rot90(_, _)
rot90(grid, k) ==
    IF k = 0 THEN grid
    ELSE rot90([p \in Points |->
                   grid[ColOf(p) * BoardSize + (BoardSize - 1 - RowOf(p))]], k - 1)

\* jnp.rot90 of a slice of nt_states over axes (3, 4): every channel of the
\* state is turned; the turn, pass and end channels are constant planes.
\* (rot90_state_channel_axes is the turn taken over the channel axis and
\* one board axis, which carries the turn plane into the stone channels.)
rot90_state_channel_axes(s, k) ==
    [s EXCEPT !.board = [p \in Points |->
                            IF s.turn THEN "W" ELSE rot90(s.board, k)[p]]]
rot90_state(s, k) == [s EXCEPT !.board = rot90(s.board, k)]

\* gojax.action_1d_to_indicator: the one-hot B x B grid of a board action;
\* an action outside the board (the pass, the uint16 sentinel) is all FALSE
action_1d_to_indicator(a) == [p \in Points |-> p = a]

\* gojax.action_indicator_to_1d: the index of the set cell, or the pass
\* index B^2 when no cell is set
action_indicator_to_1d(ind) ==
    IF \A p \in Points : ~ind[p] THEN PassAction
    ELSE CHOOSE p \in Points : ind[p] /\ \A q \in Points : ind[q] => p <= q

\* nt_indicator_actions: the indicator form of every action
nt_indicator_actions(nt_actions) ==
    [n \in DOMAIN nt_actions |->
        [t \in DOMAIN nt_actions[n] |-> action_1d_to_indicator(nt_actions[n][t])]]

\* nt_aug_actions: the integer form of every augmented indicator action
nt_aug_actions_argmax(indic) ==
    [n \in DOMAIN indic |->
        [t \in DOMAIN indic[n] |->
            IF \E p \in Points : indic[n][t][p]
            THEN action_indicator_to_1d(indic[n][t]) ELSE 0]]
nt_aug_actions(indic) ==
    [n \in DOMAIN indic |->
        [t \in DOMAIN indic[n] |-> action_indicator_to_1d(indic[n][t])]]

\* group_size = max(len(nt_states) // 4, 1) (group_size_unclamped is the
\* quotient alone, 0 for a batch of fewer than 4)
group_size_unclamped(batch_size) == batch_size \div 4
group_size(batch_size) == Max(batch_size \div 4, 1)

\* the instances of the slice [i * group_size : (i + 1) * group_size]
group_slice(i, batch_size) ==
    {n \in 0 .. (batch_size - 1) :
        i * group_size(batch_size) <= n /\ n < (i + 1) * group_size(batch_size)}

\* jnp.rot90 of a slice of the indicator actions over axes (2, 3), with the
\* k of the states of the slice (sliced_augmented_actions_unrotated leaves
\* the indicator as it is)
sliced_augmented_actions_unrotated(indic, k) == indic
sliced_augmented_actions(indic, k) == rot90(indic, k)

\* the loop "for i in range(1, 4)" from iteration i on, with its break
RECURSIVE augment_loop(_, _, _)
augment_loop(i, nt_aug_states, nt_aug_indic_actions) ==
    LET batch_size == Cardinality(DOMAIN nt_aug_states)
    IN IF i >= 4 \/ i >= batch_size
       THEN [nt_states |-> nt_aug_states, indic |-> nt_aug_indic_actions]
       ELSE augment_loop(i + 1,
               [n \in DOMAIN nt_aug_states |->
                   IF n \in group_slice(i, batch_size)
                   THEN [t \in DOMAIN nt_aug_states[n] |->
                            rot90_state(nt_aug_states[n][t], i)]
                   ELSE nt_aug_states[n]],
               [n \in DOMAIN nt_aug_indic_actions |->
                   IF n \in group_slice(i, batch_size)
                   THEN [t \in DOMAIN nt_aug_indic_actions[n] |->
                            sliced_augmented_actions(nt_aug_indic_actions[n][t], i)]
                   ELSE nt_aug_indic_actions[n]])

rotationally_augment_trajectories(traj) ==
    LET looped == augment_loop(1, traj.nt_states,
                               nt_indicator_actions(traj.nt_actions))
    IN [nt_states |-> looped.nt_states,
        nt_actions |-> nt_aug_actions(looped.indic)]

(***************************************************************************)
(* Specification SpecRot: rotationally_augment_trajectories applied to a   *)
(* batch of 1 .. MaxRotBatch copies of one trajectory.  The trajectory     *)
(* has a black stone on one point (or none), joined by a white stone on    *)
(* the next point at the odd steps; its actions alternate between two      *)
(* values drawn from the board points, the pass and the sentinel.          *)
(***************************************************************************)
RotActions == (0 .. PassAction) \cup {Sentinel}

template_state(p0, t) ==
    [board |-> [p \in Points |->
                   IF p = p0 THEN "B"
                   ELSE IF p0 < NumPoints /\ t % 2 = 1 /\ p = (p0 + 1) % NumPoints
                        THEN "W" ELSE "_"],
     turn |-> (t % 2 = 1), passed |-> FALSE, ended |-> FALSE]

template_trajectories(batch_size, p0, a0, a1) ==
    [nt_states  |-> [n \in 0 .. (batch_size - 1) |->
                        [t \in Steps |-> template_state(p0, t)]],
     nt_actions |-> [n \in 0 .. (batch_size - 1) |->
                        [t \in Steps |-> IF t % 2 = 0 THEN a0 ELSE a1]]]

InitRot ==
    /\ pc = "rot_start"
    /\ \E batch_size \in 1 .. MaxRotBatch : \E p0 \in 0 .. NumPoints :
       \E a0 \in RotActions : \E a1 \in RotActions :
          /\ trajectories = template_trajectories(batch_size, p0, a0, a1)
          /\ orig = template_trajectories(batch_size, p0, a0, a1)
    /\ rng_key = 0
    /\ step = 0
    /\ keys = << >>
    /\ rerun = None
    /\ max_hypo_steps = 0
    /\ sample = None
    /\ game_data = None
    /\ labels = None
    /\ data = None
    /\ returned = None
    /\ prev = None
    /\ k_steps = 0

RotationallyAugment ==
    /\ pc = "rot_start"
    /\ trajectories' = rotationally_augment_trajectories(trajectories)
    /\ pc' = "rot_done"
    /\ UNCHANGED <<rng_key, step, keys, rerun, orig, max_hypo_steps, sample,
                   game_data, labels,
                   loss_vars>>

NextRot == RotationallyAugment

SpecRot == InitRot /\ [][NextRot]_vars

(***************************************************************************)
(* Claims about rotationally_augment_trajectories.                         *)
(***************************************************************************)
RotBatch == DOMAIN orig.nt_states
RotBatchSize == Cardinality(RotBatch)

\* the rotation class the four-group partition of the specification gives
\* instance n: groups of floor(N/4), the last one taking the remainder
PartitionClass(n, batch_size) == Min(n \div (batch_size \div 4), 3)

\* C9: with N >= 4 the instances fall into 4 contiguous groups of
\* floor(N/4), the last absorbing the remainder, and every instance of
\* group i is rotated by i quarter turns.
C9_FourGroupsLastAbsorbsRemainder ==
    (pc = "rot_done" /\ RotBatchSize >= 4) =>
        \A n \in RotBatch : \A t \in Steps :
            /\ trajectories.nt_states[n][t]
                 = rot90_state(orig.nt_states[n][t], PartitionClass(n, RotBatchSize))
            /\ trajectories.nt_actions[n][t]
                 = action_indicator_to_1d(
                      rot90(action_1d_to_indicator(orig.nt_actions[n][t]),
                            PartitionClass(n, RotBatchSize)))

\* C10: a pass action of the input is a pass action of the output, in every
\* rotation group and at every time step.
C10_PassActionsInvariant ==
    pc = "rot_done" =>
        \A n \in RotBatch : \A t \in Steps :
            orig.nt_actions[n][t] = PassAction
            => trajectories.nt_actions[n][t] = PassAction

\* an augmented batch with all four rotation classes whose trajectory
\* passes at one step and plays a board point at the other
C10_Witness ==
    /\ pc = "rot_done"
    /\ RotBatchSize >= 4
    /\ orig.nt_actions[3][0] = PassAction
    /\ trajectories.nt_actions[3][0] = PassAction
    /\ orig.nt_actions[3][1] \in Points
    /\ trajectories.nt_actions[3][1] # orig.nt_actions[3][1]

(***************************************************************************)
(* data.py: sample_game_data.                                              *)
(***************************************************************************)
\* an array read at an index past the end: the jax gather clamps the index
\* to the last element
gather(row, idx) == row[Min(idx, Cardinality(DOMAIN row) - 1)]

\* game_ended * float('-inf'): False * -inf is NaN, True * -inf is -inf
base_sample_state_logits(states) ==
    [t \in DOMAIN states |-> IF get_ended(states[t]) THEN "-inf" ELSE "nan"]

\* jax.random.categorical over one row of logits: the argmax of logits plus
\* Gumbel noise.  A NaN logit gives a NaN sum, and jnp.argmax returns the
\* first NaN of a row that has one, whatever the noise; a row of -inf alone
\* ties everywhere and the argmax is the first index.
categorical_last_nan(logits) ==
    LET nans == {t \in DOMAIN logits : logits[t] = "nan"}
    IN IF nans = {} THEN 0
       ELSE CHOOSE t \in nans : \A u \in nans : u <= t
categorical(logits) ==
    LET nans == {t \in DOMAIN logits : logits[t] = "nan"}
    IN IF nans = {} THEN 0
       ELSE CHOOSE t \in nans : \A u \in nans : t <= u

\* jax.random.randint(minval, maxval): a value of minval .. maxval - 1; the
\* span is taken as 1 when maxval <= minval, so minval is returned
randint(minval, maxval) ==
    IF maxval <= minval THEN {minval} ELSE minval .. (maxval - 1)

\* game_len = jnp.sum(~game_ended, axis=1)
game_len(states) == Cardinality({t \in DOMAIN states : ~get_ended(states[t])})

end_indices_unclamped(start, k, len) == start + k
end_indices(start, k, len) == Min(start + k, len)

hypo_steps_unclamped(k, end, start) == k
hypo_steps(k, end, start) == Min(k, end - start)

\* nt_actions[n, start + j].astype('int32') for j < max_hypo_steps, then
\* jnp.where(j < hypo_steps, action, -1)
nk_actions(actions, start, max_hypo, horizon) ==
    [j \in 0 .. (max_hypo - 1) |->
        IF j < horizon THEN gather(actions, start + j) ELSE -1]

\* final_areas, or final_areas[:, [1, 0]] when it is white's turn in state s:
\* first the areas of the player to move, second the opponent's
\* (player_final_areas_unoriented is final_areas as compute_areas gives it)
player_final_areas_unoriented(s, final_areas) ==
    <<final_areas.black, final_areas.white>>
player_final_areas(s, final_areas) ==
    IF get_turns(s) THEN <<final_areas.white, final_areas.black>>
    ELSE <<final_areas.black, final_areas.white>>

\* the body of sample_game_data after the argument check.  start_indices and
\* unclamped_hypo_steps are the two random draws; draws and reads count the
\* random draws made and the trajectory arrays read.
sampled_game_data(traj, max_hypo, start_indices, unclamped_hypo_steps) ==
    LET batch == DOMAIN traj.nt_states
        len   == [n \in batch |-> game_len(traj.nt_states[n])]
        ends  == [n \in batch |->
                    end_indices(start_indices[n], unclamped_hypo_steps[n], len[n])]
        hypo  == [n \in batch |->
                    hypo_steps(unclamped_hypo_steps[n], ends[n], start_indices[n])]
        start_states == [n \in batch |-> gather(traj.nt_states[n], start_indices[n])]
        end_states   == [n \in batch |-> gather(traj.nt_states[n], ends[n])]
        final_areas  == [n \in batch |->
                           compute_areas(gather(traj.nt_states[n], len[n]))]
    IN [error |-> None, returned |-> TRUE, draws |-> 2, reads |-> 5,
        game_len |-> len,
        start_indices |-> start_indices,
        unclamped_hypo_steps |-> unclamped_hypo_steps,
        end_indices |-> ends,
        hypo_steps |-> hypo,
        game_data |->
           [start_states |-> start_states,
            end_states   |-> end_states,
            nk_actions   |-> [n \in batch |->
                                nk_actions(traj.nt_actions[n], start_indices[n],
                                           max_hypo, hypo[n])],
            start_player_final_areas |->
                [n \in batch |-> player_final_areas(start_states[n], final_areas[n])],
            end_player_final_areas |->
                [n \in batch |-> player_final_areas(end_states[n], final_areas[n])]]]

\* sample_game_data: the ValueError of a max_hypo_steps below 1 comes first
sample_game_data_unvalidated(traj, max_hypo, start_indices, unclamped_hypo_steps) ==
    sampled_game_data(traj, max_hypo, start_indices, unclamped_hypo_steps)
sample_game_data(traj, max_hypo, start_indices, unclamped_hypo_steps) ==
    IF max_hypo < 1
    THEN [error |-> "ValueError", returned |-> FALSE, draws |-> 0, reads |-> 0]
    ELSE sampled_game_data(traj, max_hypo, start_indices, unclamped_hypo_steps)

(***************************************************************************)
(* Specification SpecData: sample_game_data called on the trajectories of  *)
(* a self-play, as self_play returns them or after the rotational          *)
(* augmentation train.py applies.  In the self-play, instance n places     *)
(* plan[n] stones on corners of the board and passes from then on.         *)
(***************************************************************************)
PlanPoints == <<0, BoardSize - 1, NumPoints - BoardSize, NumPoints - 1>>

plan_action(m, t) == IF t < m THEN PlanPoints[t + 1] ELSE PassAction

RECURSIVE planned_self_play(_, _, _)
planned_self_play(traj, stp, plan) ==
    IF stp >= self_play_iterations(TrajLen) THEN traj
    ELSE planned_self_play(
            update_trajectories(traj, stp,
                                [n \in Batch |-> plan_action(plan[n], stp)]),
            stp + 1, plan)

Plans == [Batch -> 0 .. Min(self_play_iterations(TrajLen), Len(PlanPoints))]

InitData ==
    /\ pc = "sample"
    /\ \E plan \in Plans : \E aug \in BOOLEAN :
          LET played == planned_self_play(new_trajectories(Batch, TrajLen), 0, plan)
              given  == IF aug THEN rotationally_augment_trajectories(played)
                        ELSE played
          IN trajectories = given /\ orig = given
    /\ max_hypo_steps \in -1 .. MaxHypoSteps
    /\ rng_key = RootKey
    /\ step = 0
    /\ keys = << >>
    /\ rerun = None
    /\ sample = None
    /\ game_data = None
    /\ labels = None
    /\ data = None
    /\ returned = None
    /\ prev = None
    /\ k_steps = 0

SampleGameData ==
    /\ pc = "sample"
    /\ \E unclamped_hypo_steps \in [DOMAIN trajectories.nt_states ->
                                      1 .. Max(max_hypo_steps, 1)] :
          /\ \A n \in DOMAIN trajectories.nt_states :
                unclamped_hypo_steps[n] \in randint(1, max_hypo_steps + 1)
          /\ LET start_indices ==
                     [n \in DOMAIN trajectories.nt_states |->
                         categorical(base_sample_state_logits(
                                         trajectories.nt_states[n]))]
                 result == sample_game_data(trajectories, max_hypo_steps,
                                            start_indices, unclamped_hypo_steps)
             IN /\ sample' = [f \in DOMAIN result \ {"game_data"} |-> result[f]]
                /\ game_data' = IF result.returned THEN result.game_data
                                ELSE game_data
                /\ pc' = IF result.returned THEN "sampled" ELSE "raised"
    /\ UNCHANGED <<rng_key, step, trajectories, keys, rerun, orig,
                   max_hypo_steps, labels, loss_vars>>

NextData == SampleGameData

SpecData == InitData /\ [][NextData]_vars

(***************************************************************************)
(* Claims about sample_game_data.                                          *)
(***************************************************************************)
\* C5: every returned sample has start_index < true game length, with a
\* start state that is not terminal, start_index <= end_index <= true game
\* length, and end_index = min(start_index + k, true game length) for a
\* drawn k in 1 .. max_hypo_steps; a k that overshoots is clamped and the
\* call still returns.
C5_SamplingBounds ==
    pc = "sampled" =>
        \A n \in Batch :
            LET len   == FirstTerminal(trajectories.nt_states, n)
                start == sample.start_indices[n]
                end   == sample.end_indices[n]
                k     == sample.unclamped_hypo_steps[n]
            IN /\ start < len
               /\ game_data.start_states[n] = trajectories.nt_states[n][start]
               /\ ~get_ended(game_data.start_states[n])
               /\ start <= end
               /\ end <= len
               /\ k \in 1 .. max_hypo_steps
               /\ end = Min(start + k, len)

\* a returned sample whose drawn k reached past the end of the game
C5_Witness ==
    /\ pc = "sampled"
    /\ \E n \in Batch :
          /\ sample.start_indices[n] + sample.unclamped_hypo_steps[n]
                > FirstTerminal(trajectories.nt_states, n)
          /\ sample.end_indices[n] = FirstTerminal(trajectories.nt_states, n)

\* C6: nk_actions has max_hypo_steps slots per instance, and every slot j
\* at or past the effective horizon min(k, end_index - start_index) holds
\* -1, whatever the trajectory holds at step start_index + j; no slot shows
\* an action taken at or after end_index.
C6_NoLeakPastHorizon ==
    pc = "sampled" =>
        \A n \in Batch :
            LET start == sample.start_indices[n]
                end   == sample.end_indices[n]
                k     == sample.unclamped_hypo_steps[n]
            IN /\ DOMAIN game_data.nk_actions[n] = 0 .. (max_hypo_steps - 1)
               /\ \A j \in 0 .. (max_hypo_steps - 1) :
                     (j >= Min(k, end - start) \/ start + j >= end)
                     => game_data.nk_actions[n][j] = -1

\* a returned sample with a played action in the trajectory at a step the
\* window covers past the effective horizon
C6_Witness ==
    /\ pc = "sampled"
    /\ \E n \in Batch : \E j \in 0 .. (max_hypo_steps - 1) :
          /\ j >= Min(sample.unclamped_hypo_steps[n],
                      sample.end_indices[n] - sample.start_indices[n])
          /\ sample.start_indices[n] + j < TrajLen
          /\ trajectories.nt_actions[n][sample.start_indices[n] + j]
                \in 0 .. PassAction
          /\ game_data.nk_actions[n][j] = -1

\* C7: a call with max_hypo_steps < 1 ends in the ValueError, with no
\* random draw made, no trajectory array read and no GameData returned.
C7_InvalidArgumentFirst ==
    (pc # "sample" /\ max_hypo_steps < 1) =>
        /\ pc = "raised"
        /\ sample.error = "ValueError"
        /\ ~sample.returned
        /\ sample.draws = 0
        /\ sample.reads = 0
        /\ game_data = None

\* a call with max_hypo_steps below 1 that raised
C7_Witness ==
    /\ pc = "raised"
    /\ max_hypo_steps < 1
    /\ sample.error = "ValueError"

(***************************************************************************)
(* Further claims about rotationally_augment_trajectories.                 *)
(***************************************************************************)
\* every board of the input batch is empty
AllEmptyBoards(nt_states) ==
    \A n \in DOMAIN nt_states : \A t \in DOMAIN nt_states[n] :
        \A p \in Points : nt_states[n][t].board[p] = "_"

\* C11: rotationally_augment_trajectories on trajectories whose boards are
\* all empty returns the same state for every instance and time step; the
\* starting position of a trajectory is not changed.
C11_EmptyBoardsUnchanged ==
    (pc = "rot_done" /\ AllEmptyBoards(orig.nt_states)) =>
        /\ trajectories.nt_states = orig.nt_states
        /\ \A n \in RotBatch :
              trajectories.nt_states[n][0] = orig.nt_states[n][0]

\* an augmented batch of empty boards with all four rotation classes, in
\* which the rotation moved an action
C11_Witness ==
    /\ pc = "rot_done"
    /\ AllEmptyBoards(orig.nt_states)
    /\ RotBatchSize >= 4
    /\ orig.nt_actions[1][0] \in Points
    /\ trajectories.nt_actions[1][0] # orig.nt_actions[1][0]

(***************************************************************************)
(* losses.py: the k-step loss loop.  The four models are learned networks; *)
(* their outputs are kept as terms that name the model and its input, so   *)
(* that two outputs are equal only when model and input are.  A loss is    *)
(* kept as the record of the arrays it is computed from, a cumulative loss *)
(* as the sequence of the losses added to the initial 0.                   *)
(***************************************************************************)
\* the width of the action axis of the transition model, B^2 + 1
ActionSize == NumPoints + 1

\* embed_model on the state of instance n at column t
embed_model(n, t) == <<"embed", n, t>>

\* value_model and policy_model on one embedding
value_model(e) == <<"value", e>>
policy_model(e) == <<"policy", e>>

\* transition_model on one embedding: the next embedding for each action
transition_model(e) == [a \in 0 .. (ActionSize - 1) |-> <<"transition", e, a>>]

\* an integer array index on an axis of the given size: a negative index
\* counts from the end, an index past the end is clamped
array_index(idx, size) ==
    IF idx < 0 THEN Max(idx + size, 0) ELSE Min(idx, size - 1)

\* the shape of an N x T array
batch_of(x) == DOMAIN x
total_steps_of(x) == Cardinality(DOMAIN x[0])

\* make_nt_mask: the first stp columns of every row are TRUE, jnp.arange(
\* total_steps) < step (make_nt_mask_inclusive is the variant with <=)
make_nt_mask_inclusive(batch, total_steps, stp) ==
    [n \in batch |-> [t \in 0 .. (total_steps - 1) |-> t <= stp]]
make_nt_mask(batch, total_steps, stp) ==
    [n \in batch |-> [t \in 0 .. (total_steps - 1) |-> t < stp]]

\* jnp.sum(nt_mask): the number of TRUE cells
mask_count(nt_mask) ==
    Cardinality({c \in (DOMAIN nt_mask) \X (DOMAIN nt_mask[0]) :
                    nt_mask[c[1]][c[2]]})

\* jnp.roll(x, shift) with no axis: the array is flattened, rolled and put
\* back into its shape
roll(x, shift) ==
    LET total_steps == total_steps_of(x)
        size == Cardinality(batch_of(x)) * total_steps
    IN [n \in batch_of(x) |-> [t \in 0 .. (total_steps - 1) |->
           LET from == (n * total_steps + t - shift) % size
           IN x[from \div total_steps][from % total_steps]]]

\* jnp.roll(x, shift, axis=1): every row is rolled along the time axis
roll_axis1(x, shift) ==
    LET total_steps == total_steps_of(x)
    IN [n \in batch_of(x) |-> [t \in 0 .. (total_steps - 1) |->
           x[n][(t - shift) % total_steps]]]

\* nt_sigmoid_cross_entropy: sum(cross_entropy * nt_mask) / sum(nt_mask)
nt_sigmoid_cross_entropy(value_logits, binary_labels, nt_mask) ==
    [op |-> "nt_sigmoid_cross_entropy", x |-> value_logits, y |-> binary_labels,
     nt_mask |-> nt_mask, count |-> mask_count(nt_mask)]

\* nt_categorical_cross_entropy: sum(cross_entropy * nt_mask) / sum(nt_mask)
nt_categorical_cross_entropy(x_logits, y_logits, nt_mask) ==
    [op |-> "nt_categorical_cross_entropy", x |-> x_logits, y |-> y_logits,
     nt_mask |-> nt_mask, count |-> mask_count(nt_mask)]

\* compute_value_loss: labels (roll(nt_game_winners, i) + 1) / 2, kept as
\* the pair <<numerator, 2>>
compute_value_loss(model_state, i, nt_embeds, nt_game_winners) ==
    LET rolled == roll(nt_game_winners, i)
        value_labels == [n \in batch_of(nt_embeds) |->
                            [t \in DOMAIN nt_embeds[n] |-> <<rolled[n][t] + 1, 2>>]]
        value_logits == [n \in batch_of(nt_embeds) |-> [t \in DOMAIN nt_embeds[n] |->
                            value_model(nt_embeds[n][t])]]
    IN [loss |-> nt_sigmoid_cross_entropy(value_logits, value_labels,
                    make_nt_mask(batch_of(nt_embeds), total_steps_of(nt_embeds),
                                 total_steps_of(nt_embeds) - i)),
        model_state |-> Append(model_state, "value_model")]

\* compute_policy_loss: the policy logits of nt_embeds against the negated,
\* gradient-stopped value logits of the transitions
compute_policy_loss(model_state, i, transitions, nt_embeds) ==
    LET transition_value_logits ==
            [n \in batch_of(transitions) |-> [t \in DOMAIN transitions[n] |->
                [a \in DOMAIN transitions[n][t] |->
                    <<"neg", <<"stop_gradient", value_model(transitions[n][t][a])>>>>]]]
        policy_logits == [n \in batch_of(nt_embeds) |-> [t \in DOMAIN nt_embeds[n] |->
                             policy_model(nt_embeds[n][t])]]
    IN [loss |-> nt_categorical_cross_entropy(policy_logits, transition_value_logits,
                    make_nt_mask(batch_of(transitions), total_steps_of(transitions),
                                 total_steps_of(transitions) - i)),
        model_state |-> Append(Append(model_state, "value_model"), "policy_model")]

\* compute_embed_loss: the masked mean squared error of transition_embeds
\* against the gradient-stopped target_embeds
compute_embed_loss(transition_embeds, target_embeds, nt_mask) ==
    [op |-> "compute_embed_loss", x |-> transition_embeds,
     y |-> [n \in batch_of(target_embeds) |-> [t \in DOMAIN target_embeds[n] |->
               <<"stop_gradient", target_embeds[n][t]>>]],
     nt_mask |-> nt_mask, count |-> mask_count(nt_mask)]

\* _do_nothing: jnp.zeros(())
do_nothing == [op |-> "zeros", x |-> << >>, y |-> << >>, nt_mask |-> << >>,
               count |-> 0]

\* the addend of cum_embed_loss in iteration i:
\* lax.cond(total_steps - i - 1 > 0, _compute_embed_loss, _do_nothing)
embed_loss_addend_unconditional(i, nt_hypothetical_embeds, nt_embeds) ==
    compute_embed_loss(nt_hypothetical_embeds, nt_embeds,
        make_nt_mask(batch_of(nt_embeds), total_steps_of(nt_embeds),
                     total_steps_of(nt_embeds) - i - 1))
embed_loss_addend(i, nt_hypothetical_embeds, nt_embeds) ==
    IF total_steps_of(nt_embeds) - i - 1 > 0
    THEN compute_embed_loss(nt_hypothetical_embeds, nt_embeds,
            make_nt_mask(batch_of(nt_embeds), total_steps_of(nt_embeds),
                         total_steps_of(nt_embeds) - i - 1))
    ELSE do_nothing

\* the embeddings compute_policy_loss is given: data['nt_embeds'] is read
\* before the assignment that replaces it at the end of the iteration
policy_loss_embeds_after_replacement(nt_embeds, nt_hypothetical_embeds) ==
    nt_hypothetical_embeds
policy_loss_embeds(nt_embeds, nt_hypothetical_embeds) == nt_embeds

\* update_k_step_losses: the dictionary after the call
update_k_step_losses(i, d) ==
    LET value == compute_value_loss(d.model_state, i, d.nt_embeds,
                                    d.nt_game_winners)
        transitions == [n \in batch_of(d.nt_embeds) |->
                           [t \in DOMAIN d.nt_embeds[n] |->
                               transition_model(d.nt_embeds[n][t])]]
        transition_state == Append(value.model_state, "transition_model")
        nt_next_embeds == [n \in batch_of(d.nt_embeds) |->
                              [t \in DOMAIN d.nt_embeds[n] |->
                                  transitions[n][t][
                                      array_index(d.nt_actions[n][t], ActionSize)]]]
        nt_hypothetical_embeds == roll_axis1(nt_next_embeds, -1)
        policy == compute_policy_loss(transition_state, i, transitions,
                     policy_loss_embeds(d.nt_embeds, nt_hypothetical_embeds))
    IN [model_state     |-> policy.model_state,
        nt_embeds       |-> nt_hypothetical_embeds,
        nt_actions      |-> d.nt_actions,
        nt_game_winners |-> d.nt_game_winners,
        cum_embed_loss  |-> Append(d.cum_embed_loss,
                               embed_loss_addend(i, nt_hypothetical_embeds,
                                                 d.nt_embeds)),
        cum_val_loss    |-> Append(d.cum_val_loss, value.loss),
        cum_policy_loss |-> Append(d.cum_policy_loss, policy.loss)]

(***************************************************************************)
(* Specification SpecLoss: compute_k_step_losses on a batch of 1 or        *)
(* BatchSize trajectories of 1 .. MaxLossSteps columns, with k from 0 to   *)
(* MaxLossSteps + 1.  Instance n played first_action[n] for game_length[n] *)
(* columns, the sentinel after; its labels are winner[n] at the even and   *)
(* -winner[n] at the odd columns.  Each iteration of lax.fori_loop is one  *)
(* call of update_k_step_losses on the dictionary data.                    *)
(***************************************************************************)
MaxLossSteps == 3

init_val(batch, total_steps, first_action, game_length, winner) ==
    [model_state     |-> <<"embed_model">>,
     nt_embeds       |-> [n \in batch |-> [t \in 0 .. (total_steps - 1) |->
                             embed_model(n, t)]],
     nt_actions      |-> [n \in batch |-> [t \in 0 .. (total_steps - 1) |->
                             IF t < game_length[n] THEN first_action[n] ELSE -1]],
     nt_game_winners |-> [n \in batch |-> [t \in 0 .. (total_steps - 1) |->
                             IF t % 2 = 0 THEN winner[n] ELSE -winner[n]]],
     cum_embed_loss  |-> << >>,
     cum_val_loss    |-> << >>,
     cum_policy_loss |-> << >>]

InitLoss ==
    /\ pc = "k_step"
    /\ step = 0
    /\ k_steps \in 0 .. (MaxLossSteps + 1)
    /\ \E batch \in {0 .. 0, Batch} : \E total_steps \in 1 .. MaxLossSteps :
       \E first_action \in [batch -> {0, PassAction}] :
       \E game_length \in [batch -> 0 .. total_steps] :
       \E winner \in [batch -> {-1, 0, 1}] :
          /\ \A n \in batch : game_length[n] = 0 => first_action[n] = 0
          /\ data = init_val(batch, total_steps, first_action, game_length, winner)
          /\ prev = init_val(batch, total_steps, first_action, game_length, winner)
    /\ returned = None
    /\ rng_key = RootKey
    /\ trajectories = None
    /\ keys = << >>
    /\ rerun = None
    /\ orig = None
    /\ max_hypo_steps = 0
    /\ sample = None
    /\ game_data = None
    /\ labels = None

\* one iteration of the loop: update_k_step_losses(go_model, params, temp,
\* step, data) assigns into the dictionary it is given and returns it
UpdateKStepLosses ==
    /\ pc = "k_step"
    /\ step < k_steps
    /\ prev' = data
    /\ data' = update_k_step_losses(step, data)
    /\ returned' = update_k_step_losses(step, data)
    /\ step' = step + 1
    /\ UNCHANGED <<pc, k_steps, game_vars>>

\* the return of compute_k_step_losses: the three cumulative losses and the
\* model state of the last dictionary
ComputeKStepLosses ==
    /\ pc = "k_step"
    /\ step = k_steps
    /\ returned' = [key \in {"cum_embed_loss", "cum_val_loss", "cum_policy_loss",
                             "model_state"} |-> data[key]]
    /\ pc' = "k_done"
    /\ UNCHANGED <<step, data, prev, k_steps, game_vars>>

NextLoss == UpdateKStepLosses \/ ComputeKStepLosses

SpecLoss == InitLoss /\ [][NextLoss]_vars

(***************************************************************************)
(* Claims about the k-step loss loop.                                      *)
(***************************************************************************)
LossBatch == DOMAIN data.nt_embeds
LossTotalSteps == Cardinality(DOMAIN data.nt_embeds[0])

\* a cumulative loss that is 0: nothing but zeros was added to the initial 0
IsZeroLoss(cum) == \A j \in 1 .. Len(cum) : cum[j].op = "zeros"

\* C12: with k = 0 the returned embedding, value and policy losses are 0;
\* in an iteration i with T - i - 1 <= 0 the addend of the cumulative
\* embedding loss is exactly 0, and the iteration completes.
C12_EmbedLossZeroWhenMasked ==
    /\ (pc = "k_done" /\ k_steps = 0) =>
          /\ IsZeroLoss(returned.cum_embed_loss)
          /\ IsZeroLoss(returned.cum_val_loss)
          /\ IsZeroLoss(returned.cum_policy_loss)
    /\ pc \in {"k_step", "k_done"} =>
          /\ Len(data.cum_embed_loss) = step
          /\ \A i \in 0 .. (step - 1) :
                LossTotalSteps - i - 1 <= 0
                => /\ data.cum_embed_loss[i + 1].op = "zeros"
                   /\ data.cum_embed_loss[i + 1].count = 0

\* an iteration with T - i - 1 <= 0 has run, after one in which the
\* embedding loss was computed
C12_Witness ==
    /\ pc = "k_step"
    /\ step >= 2
    /\ LossTotalSteps - (step - 1) - 1 <= 0
    /\ data.cum_embed_loss[1].op = "compute_embed_loss"
    /\ data.cum_embed_loss[step].op = "zeros"

(***************************************************************************)
(* Specification SpecPlay: one call of self_play on the empty trajectories *)
(* of a single game of 2 .. TrajLen + 1 columns, and get_labels on the     *)
(* states it returns.  policy[t] is the action jax.random.categorical      *)
(* draws from the policy logits at step t.                                 *)
(***************************************************************************)
\* the loop of self_play from iteration stp on: jax.lax.fori_loop(0,
\* trajectory_length - 1, update_trajectories, empty_trajectories)
RECURSIVE self_play(_, _, _)
self_play(traj, stp, policy) ==
    IF stp >= self_play_iterations(Cardinality(DOMAIN traj.nt_states[0]))
    THEN traj
    ELSE self_play(update_trajectories(traj, stp,
                       [n \in DOMAIN traj.nt_states |-> policy[stp]]),
                   stp + 1, policy)

InitPlay ==
    /\ pc = "play"
    /\ \E len \in 2 .. (TrajLen + 1) :
          /\ trajectories = new_trajectories(0 .. 0, len)
          /\ orig = new_trajectories(0 .. 0, len)
    /\ rng_key = RootKey
    /\ step = 0
    /\ keys = << >>
    /\ rerun = None
    /\ max_hypo_steps = 0
    /\ sample = None
    /\ game_data = None
    /\ labels = None
    /\ data = None
    /\ returned = None
    /\ prev = None
    /\ k_steps = 0

SelfPlay ==
    /\ pc = "play"
    /\ \E policy \in [0 .. (Cardinality(DOMAIN trajectories.nt_states[0]) - 2)
                        -> SampledActions] :
          trajectories' = self_play(trajectories, 0, policy)
    /\ pc' = "played"
    /\ UNCHANGED <<rng_key, step, keys, rerun, orig, max_hypo_steps, sample,
                   game_data, labels, loss_vars>>

\* get_labels on the states self_play returned
GetLabelsPlayed ==
    /\ pc = "played"
    /\ labels' = get_labels(trajectories.nt_states)
    /\ pc' = "played_labelled"
    /\ UNCHANGED <<rng_key, step, trajectories, keys, rerun, orig,
                   max_hypo_steps, sample, game_data, loss_vars>>

NextPlay == SelfPlay \/ GetLabelsPlayed

SpecPlay == InitPlay /\ [][NextPlay]_vars

\* C13: Scenario A.  self_play on the 3x3 board with batch 1, T = 3 and a
\* policy that passes at every step returns state[1] = state[2] and the
\* actions pass, -1: the first pass alone is recorded.
C13_ScenarioA ==
    (/\ pc = "played"
     /\ Cardinality(DOMAIN trajectories.nt_states[0]) = 3
     /\ trajectories.nt_states[0][1].passed
     /\ trajectories.nt_states[0][2].ended) =>
        /\ trajectories.nt_states[0][1] = trajectories.nt_states[0][2]
        /\ trajectories.nt_actions[0][0] = PassAction
        /\ trajectories.nt_actions[0][1] = Sentinel

(***************************************************************************)
(* Specification SpecSample: sample_game_data on the trajectory of one     *)
(* self-played game of 2 .. TrajLen columns, with max_hypo_steps from 1 to *)
(* MaxHypoSteps.                                                           *)
(***************************************************************************)
InitSample ==
    /\ pc = "sample"
    /\ \E len \in 2 .. TrajLen : \E policy \in [0 .. (len - 2) -> SampledActions] :
          /\ trajectories = self_play(new_trajectories(0 .. 0, len), 0, policy)
          /\ orig = self_play(new_trajectories(0 .. 0, len), 0, policy)
    /\ max_hypo_steps \in 1 .. MaxHypoSteps
    /\ rng_key \in {RootKey, RootKey + 1}
    /\ step = 0
    /\ keys = << >>
    /\ rerun = None
    /\ sample = None
    /\ game_data = None
    /\ labels = None
    /\ data = None
    /\ returned = None
    /\ prev = None
    /\ k_steps = 0

NextSample == SampleGameData

SpecSample == InitSample /\ [][NextSample]_vars

\* the points of a board that hold a stone
Stones(s) == {p \in Points : s.board[p] # "_"}

\* a trajectory of two columns: the empty board, then a board with one stone
TwoStepTrajectory ==
    /\ DOMAIN trajectories.nt_states = 0 .. 0
    /\ Cardinality(DOMAIN trajectories.nt_states[0]) = 2
    /\ Stones(trajectories.nt_states[0][0]) = {}
    /\ Cardinality(Stones(trajectories.nt_states[0][1])) = 1

RECURSIVE EmbedsAfter(_)
EmbedsAfter(j) ==
    IF j = 0
    THEN [n \in LossBatch |-> [t \in 0 .. (LossTotalSteps - 1) |-> <<"embed", n, t>>]]
    ELSE LET before == EmbedsAfter(j - 1)
         IN [n \in LossBatch |-> [t \in 0 .. (LossTotalSteps - 1) |->
                LET u == (t + 1) % LossTotalSteps
                    a == data.nt_actions[n][u]
                IN <<"transition", before[n][u],
                     IF a < 0 THEN a + ActionSize ELSE a>>]]

\* the model calls of one iteration, in the order they are made
IterationCalls == <<"value_model", "transition_model", "value_model", "policy_model">>

RECURSIVE CallsAfter(_)
CallsAfter(j) ==
    IF j = 0 THEN <<"embed_model">> ELSE CallsAfter(j - 1) \o IterationCalls

\* C15: iteration i computes the value loss on the embeddings it was
\* given, then the transitions of those embeddings, then the policy loss
\* on the same embeddings against the values of these transitions, then
\* the embedding loss, and replaces the embeddings last; the value loss of
\* iteration i + 1 is computed on the embeddings iteration i wrote, the
\* transition model's next embeddings for the recorded actions.
C15_IterationOrder ==
    pc \in {"k_step", "k_done"} =>
        /\ data.model_state = CallsAfter(step)
        /\ data.nt_embeds = EmbedsAfter(step)
        /\ \A i \in 0 .. (step - 1) : \A n \in LossBatch :
           \A t \in 0 .. (LossTotalSteps - 1) :
              /\ data.cum_val_loss[i + 1].x[n][t]
                    = <<"value", EmbedsAfter(i)[n][t]>>
              /\ data.cum_policy_loss[i + 1].x[n][t]
                    = <<"policy", EmbedsAfter(i)[n][t]>>
              /\ \A a \in 0 .. (ActionSize - 1) :
                    data.cum_policy_loss[i + 1].y[n][t][a]
                       = <<"neg", <<"stop_gradient",
                             <<"value", <<"transition", EmbedsAfter(i)[n][t], a>>>>>>>>
              /\ data.cum_embed_loss[i + 1].op = "compute_embed_loss"
                    => data.cum_embed_loss[i + 1].x[n][t] = EmbedsAfter(i + 1)[n][t]

\* two iterations have run on trajectories of more than one column, the
\* second on embeddings the first wrote
C15_Witness ==
    /\ pc = "k_step"
    /\ step = 2
    /\ LossTotalSteps >= 2
    /\ data.cum_val_loss[2].x[0][0] = <<"value", prev.nt_embeds[0][0]>>
    /\ prev.nt_embeds[0][0][1] = "transition"

\* C16: in every iteration i with T - i - 1 > 0 the target of the embedding
\* loss at an unmasked column t is the gradient-stopped base embedding of
\* column t + 1, the one embed_model computed before the loop; it is never
\* an output of the transition model.
C16_EmbedTargetIsBaseEmbedding ==
    pc \in {"k_step", "k_done"} =>
        \A i \in 0 .. (step - 1) :
            LossTotalSteps - i - 1 > 0 =>
                \A n \in LossBatch : \A t \in 0 .. (LossTotalSteps - i - 2) :
                    /\ data.cum_embed_loss[i + 1].y[n][t][2][1] = "embed"
                    /\ data.cum_embed_loss[i + 1].y[n][t]
                          = <<"stop_gradient", <<"embed", n, t + 1>>>>

\* C17: the integer and the indicator form of an action convert into each
\* other without loss, for the board points, the pass and the sentinel:
\* an instance of group 0 is returned with exactly its input actions, and a
\* sentinel action is a sentinel in the output of every group.
C17_ActionFormsRoundTrip ==
    pc = "rot_done" =>
        \A n \in RotBatch : \A t \in Steps :
            /\ n \in group_slice(0, RotBatchSize)
               => trajectories.nt_actions[n][t] = orig.nt_actions[n][t]
            /\ orig.nt_actions[n][t] = Sentinel
               => trajectories.nt_actions[n][t] = Sentinel

\* C18: update_k_step_losses leaves the dictionary it is given as it was
\* before the call (embeddings, the three cumulative losses and the model
\* state keep their values in the caller's object); the updated values are
\* in the returned dictionary alone.
C18_AccumulatorNotModified ==
    (pc \in {"k_step", "k_done"} /\ step >= 1) =>
        /\ data.nt_embeds = prev.nt_embeds
        /\ data.cum_embed_loss = prev.cum_embed_loss
        /\ data.cum_val_loss = prev.cum_val_loss
        /\ data.cum_policy_loss = prev.cum_policy_loss
        /\ data.model_state = prev.model_state

\* the outcome of a finished position for the player to move in state s:
\* 1 if that player owns the larger area, -1 if the smaller, 0 on a tie
OutcomeForMover(s, final) ==
    LET areas == compute_areas(final)
        black_wins == Sign(Cardinality(areas.black) - Cardinality(areas.white))
    IN IF get_turns(s) THEN -black_wins ELSE black_wins

\* C19: get_labels gives for every instance n and every step t the outcome
\* of the game for the player whose turn it is in state[n,t], also at the
\* steps after the end of the game, where the state is frozen.
C19_LabelsFollowMover ==
    pc = "played_labelled" =>
        \A n \in DOMAIN trajectories.nt_states :
            LET states == trajectories.nt_states[n]
                last == states[Cardinality(DOMAIN states) - 1]
            IN \A t \in DOMAIN states :
                  labels[n][t] = OutcomeForMover(states[t], last)

\* C20: after self_play, for every instance n and every t below the true
\* game length that has a next column (t + 1 < T), state[n,t+1] is the
\* successor the rules engine gives state[n,t] under action[n,t]: the
\* action stored at column t is the one that produced the state stored at
\* column t + 1.
C20_StoredActionProducedNextState ==
    Played =>
        \A n \in Batch : \A t \in 0 .. (TrajLen - 2) :
            t < FirstTerminal(trajectories.nt_states, n)
            => /\ trajectories.nt_actions[n][t] \in 0 .. PassAction
               /\ trajectories.nt_states[n][t + 1]
                     = next_states(trajectories.nt_states[n][t],
                                   trajectories.nt_actions[n][t])

\* C20 as stated, for every t below the true game length (the number of
\* non-terminal states of the trajectory): column t holds an action and
\* column t + 1 holds the successor of state[n,t] under it.
C20_EveryStepBelowGameLength ==
    Played =>
        \A n \in Batch : \A t \in Steps :
            t < FirstTerminal(trajectories.nt_states, n)
            => /\ trajectories.nt_actions[n][t] \in 0 .. PassAction
               /\ t + 1 \in Steps
               /\ trajectories.nt_states[n][t + 1]
                     = next_states(trajectories.nt_states[n][t],
                                   trajectories.nt_actions[n][t])

\* a finished self_play in which a stone was placed and the stored action
\* is the point that holds it
C20_Witness ==
    /\ Played
    /\ \E n \in Batch : \E p \in Points :
          /\ trajectories.nt_actions[n][0] = p
          /\ trajectories.nt_states[n][1].board[p] = "B"
          /\ trajectories.nt_actions[n][1] = PassAction
          /\ trajectories.nt_states[n][2].passed

\* the cells of the N x T arrays of the loop
LossCells == LossBatch \X (0 .. (LossTotalSteps - 1))

\* the columns the mask of a loss selects in row n; _do_nothing computes no
\* mean and selects nothing
MaskColumns(loss, n) ==
    IF loss.op = "zeros" THEN {}
    ELSE {t \in DOMAIN loss.nt_mask[n] : loss.nt_mask[n][t]}

\* cross_entropy * nt_mask, the array summed into the numerator of a mean:
\* the term of the logits and labels of a cell where the mask is 1, and 0
\* where it is 0
numerator_terms(loss) ==
    [c \in (DOMAIN loss.nt_mask) \X (DOMAIN loss.nt_mask[0]) |->
        IF loss.nt_mask[c[1]][c[2]]
        THEN <<loss.op, loss.x[c[1]][c[2]], loss.y[c[1]][c[2]]>>
        ELSE 0]

\* the masks of iteration i are the columns below T - i (value, policy) and
\* below T - i - 1 (embedding), the masked-out cells have numerator term 0
\* and the denominator counts the selected cells only
MasksOfIteration(i) ==
    LET val == data.cum_val_loss[i + 1]
        pol == data.cum_policy_loss[i + 1]
        emb == data.cum_embed_loss[i + 1]
    IN /\ \A n \in LossBatch :
            /\ MaskColumns(val, n) = 0 .. (LossTotalSteps - i - 1)
            /\ MaskColumns(pol, n) = 0 .. (LossTotalSteps - i - 1)
            /\ MaskColumns(emb, n) = 0 .. (LossTotalSteps - i - 2)
       /\ \A c \in LossCells :
            /\ c[2] >= LossTotalSteps - i
               => numerator_terms(val)[c] = 0 /\ numerator_terms(pol)[c] = 0
            /\ (emb.op # "zeros" /\ c[2] >= LossTotalSteps - i - 1)
               => numerator_terms(emb)[c] = 0
       /\ val.count = Cardinality(LossBatch) * Max(LossTotalSteps - i, 0)
       /\ pol.count = Cardinality(LossBatch) * Max(LossTotalSteps - i, 0)
       /\ emb.count = Cardinality(LossBatch) * Max(LossTotalSteps - i - 1, 0)

\* the masks of iteration i + 1 are one column narrower than those of
\* iteration i
OneColumnNarrower(i) ==
    \A n \in LossBatch :
        /\ Cardinality(MaskColumns(data.cum_val_loss[i + 2], n))
              = Cardinality(MaskColumns(data.cum_val_loss[i + 1], n)) - 1
        /\ Cardinality(MaskColumns(data.cum_policy_loss[i + 2], n))
              = Cardinality(MaskColumns(data.cum_policy_loss[i + 1], n)) - 1
        /\ Cardinality(MaskColumns(data.cum_embed_loss[i + 2], n))
              = Cardinality(MaskColumns(data.cum_embed_loss[i + 1], n)) - 1

C22_SentinelSelectsSelf ==
    (pc = "k_step" /\ step >= 1) =>
        \A n \in LossBatch : \A t \in 0 .. (LossTotalSteps - 1) :
            prev.nt_actions[n][t] = -1
            => data.nt_embeds[n][(t - 1) % LossTotalSteps] = prev.nt_embeds[n][t]

(***************************************************************************)
(* Further claims about sample_game_data.                                  *)
(***************************************************************************)
\* the state final_areas is computed from: nt_states[n, game_len[n]]
FirstTerminalStates(n) ==
    gather(trajectories.nt_states[n], sample.game_len[n])

\* a two-channel area map with its channels exchanged
SwapChannels(areas) == <<areas[2], areas[1]>>

\* C23: start_player_final_areas is the final area map with its two
\* channels swapped exactly when it is white's turn in start_state, and
\* end_player_final_areas follows the same rule with end_state; the two
\* maps are equal when start and end state have the same mover and
\* channel-swapped copies of each other otherwise.
C23_AreasOrientedToMover ==
    pc = "sampled" =>
        \A n \in DOMAIN trajectories.nt_states :
            LET areas == compute_areas(FirstTerminalStates(n))
                final == <<areas.black, areas.white>>
                start == game_data.start_states[n]
                end   == game_data.end_states[n]
            IN /\ game_data.start_player_final_areas[n]
                     = IF get_turns(start) THEN SwapChannels(final) ELSE final
               /\ game_data.end_player_final_areas[n]
                     = IF get_turns(end) THEN SwapChannels(final) ELSE final
               /\ get_turns(start) = get_turns(end)
                  => game_data.end_player_final_areas[n]
                        = game_data.start_player_final_areas[n]
               /\ get_turns(start) # get_turns(end)
                  => game_data.end_player_final_areas[n]
                        = SwapChannels(game_data.start_player_final_areas[n])

\* a sample whose end state has white to move and whose start state black,
\* on a final position the two players own different areas of
C23_Witness ==
    /\ pc = "sampled"
    /\ \E n \in DOMAIN trajectories.nt_states :
          /\ ~get_turns(game_data.start_states[n])
          /\ get_turns(game_data.end_states[n])
          /\ game_data.start_player_final_areas[n][1] # {}
          /\ game_data.end_player_final_areas[n][1]
                # game_data.start_player_final_areas[n][1]
          /\ game_data.end_player_final_areas[n]
                = SwapChannels(game_data.start_player_final_areas[n])

\* C24: for every trajectory given to sample_game_data, the state the final
\* areas are computed from is a terminal state of the trajectory, its first
\* terminal state, at the index of the true game length.
C24_FinalAreasFromFirstTerminalState ==
    pc = "sampled" =>
        \A n \in DOMAIN trajectories.nt_states :
            LET len == FirstTerminal(trajectories.nt_states, n)
            IN /\ sample.game_len[n] = len
               /\ get_ended(FirstTerminalStates(n))
               /\ len \in DOMAIN trajectories.nt_states[n]
               /\ FirstTerminalStates(n) = trajectories.nt_states[n][len]

(***************************************************************************)
(* Further claims about rotationally_augment_trajectories.                 *)
(***************************************************************************)
\* the index of the slice the loop rotates instance n in, 0 when no
\* iteration of the loop covers it
RotationGroup(n, batch_size) ==
    IF \E i \in 1 .. 3 : i < batch_size /\ n \in group_slice(i, batch_size)
    THEN CHOOSE i \in 1 .. 3 : i < batch_size /\ n \in group_slice(i, batch_size)
    ELSE 0

\* a board with one black stone, on point a
StoneAt(a) ==
    [new_state EXCEPT !.board = [p \in Points |-> IF p = a THEN "B" ELSE "_"]]

\* the images of point 0 of the 3x3 board under 0 .. 3 quarter turns
CornerImages == <<0, BoardSize * (BoardSize - 1), NumPoints - 1, BoardSize - 1>>

\* C25: within one instance the states and the actions of every time step
\* are rotated by the same number of quarter turns, the index of the
\* instance's group: a board-point action becomes the point where a stone
\* on that point lands under the rotation of the states (action 0 becomes
\* 0, 6, 8, 2 for the groups 0 .. 3 of the 3x3 board).
C25_StatesAndActionsSameRotation ==
    pc = "rot_done" =>
        \A n \in RotBatch :
            LET g == RotationGroup(n, RotBatchSize)
            IN \A t \in Steps :
                  /\ trajectories.nt_states[n][t]
                        = rot90_state(orig.nt_states[n][t], g)
                  /\ orig.nt_actions[n][t] \in Points
                     => /\ trajectories.nt_actions[n][t] \in Points
                        /\ rot90_state(StoneAt(orig.nt_actions[n][t]), g)
                              = StoneAt(trajectories.nt_actions[n][t])
                  /\ orig.nt_actions[n][t] = 0
                     => trajectories.nt_actions[n][t] = CornerImages[g + 1]

\* a batch with all four groups whose trajectory holds a stone on point 0
\* and the action 0: the instance of group 1 has both on point 6, that of
\* group 3 on point 2
C25_Witness ==
    /\ pc = "rot_done"
    /\ RotBatchSize >= 4
    /\ orig.nt_actions[1][0] = 0
    /\ orig.nt_states[1][0].board[0] = "B"
    /\ trajectories.nt_actions[1][0] = 6
    /\ trajectories.nt_states[1][0].board[6] = "B"
    /\ trajectories.nt_actions[3][0] = 2
    /\ trajectories.nt_states[3][0].board[2] = "B"

\* C26: on a batch of N < 4 instances rotationally_augment_trajectories
\* returns arrays of the shape of its input in which instance i is rotated by
\* i quarter turns, states and actions, for i = 0 .. N-1; no rotation class
\* of index N or more is applied.
C26_SmallBatchRotatedByIndex ==
    (pc = "rot_done" /\ RotBatchSize < 4) =>
        /\ DOMAIN trajectories.nt_states = RotBatch
        /\ DOMAIN trajectories.nt_actions = RotBatch
        /\ \A n \in RotBatch :
              /\ n < RotBatchSize
              /\ DOMAIN trajectories.nt_states[n] = Steps
              /\ DOMAIN trajectories.nt_actions[n] = Steps
              /\ \A t \in Steps :
                    /\ trajectories.nt_states[n][t]
                          = rot90_state(orig.nt_states[n][t], n)
                    /\ orig.nt_actions[n][t] \in Points
                       => StoneAt(trajectories.nt_actions[n][t])
                             = rot90_state(StoneAt(orig.nt_actions[n][t]), n)
                    /\ orig.nt_actions[n][t] = PassAction
                       => trajectories.nt_actions[n][t] = PassAction

\* a batch of three: the stone and the action on point 0 are on point 6 in
\* instance 1 and on point 8 in instance 2, and instance 0 is as it was
C26_Witness ==
    /\ pc = "rot_done"
    /\ RotBatchSize = 3
    /\ orig.nt_states[0][0].board[0] = "B"
    /\ orig.nt_actions[0][0] = 0
    /\ trajectories.nt_states[0] = orig.nt_states[0]
    /\ trajectories.nt_states[1][0].board[6] = "B"
    /\ trajectories.nt_actions[1][0] = 6
    /\ trajectories.nt_states[2][0].board[8] = "B"
    /\ trajectories.nt_actions[2][0] = 8

\* C27: at iteration i, for every instance n and every unmasked column
\* t < T - i, the target of the value loss is the rescaled label (label+1)/2
\* of a column of the same instance n; the label of another instance of the
\* batch is never the target of instance n.
C27_ValueTargetFromOwnInstance ==
    pc \in {"k_step", "k_done"} =>
        \A i \in 0 .. (step - 1) : \A n \in LossBatch :
            \A t \in 0 .. (LossTotalSteps - i - 1) :
                \E u \in 0 .. (LossTotalSteps - 1) :
                    data.cum_val_loss[i + 1].y[n][t]
                        = <<data.nt_game_winners[n][u] + 1, 2>>

\* C28: for every sample, end_index is a time index of the trajectory,
\* 0 <= end_index <= T - 1, and end_states[n] is state[n, end_index], whether
\* or not the trajectory holds a terminal state.
C28_EndIndexInTrajectory ==
    pc = "sampled" =>
        \A n \in DOMAIN trajectories.nt_states :
            /\ sample.end_indices[n] \in DOMAIN trajectories.nt_states[n]
            /\ game_data.end_states[n]
                  = trajectories.nt_states[n][sample.end_indices[n]]

\* C29: for every sample the effective horizon is end_index - start_index
\* and at least 1 (end_index > start_index), and every slot j below it
\* holds the action the trajectory recorded at step start_index + j, a step
\* below the true game length, which is an action and not a sentinel.
C29_EffectiveHorizonActions ==
    pc = "sampled" =>
        \A n \in DOMAIN trajectories.nt_states :
            LET start == sample.start_indices[n]
                end   == sample.end_indices[n]
            IN /\ sample.hypo_steps[n] = end - start
               /\ end > start
               /\ \A j \in 0 .. (sample.hypo_steps[n] - 1) :
                     /\ start + j < sample.game_len[n]
                     /\ start + j \in DOMAIN trajectories.nt_actions[n]
                     /\ game_data.nk_actions[n][j]
                           = trajectories.nt_actions[n][start + j]
                     /\ game_data.nk_actions[n][j] \in 0 .. PassAction

\* C30: every loss term computed in an iteration i < k divides by a mask
\* count that is positive, N * (T - i) for the value and the policy term and
\* N * (T - i - 1) for the embedding term when it is computed; no iteration
\* takes a mean over an empty mask.
C30_PositiveMaskCounts ==
    pc \in {"k_step", "k_done"} =>
        \A i \in 0 .. (step - 1) :
            /\ data.cum_val_loss[i + 1].count
                  = Cardinality(LossBatch) * (LossTotalSteps - i)
            /\ data.cum_val_loss[i + 1].count > 0
            /\ data.cum_policy_loss[i + 1].count
                  = Cardinality(LossBatch) * (LossTotalSteps - i)
            /\ data.cum_policy_loss[i + 1].count > 0
            /\ data.cum_embed_loss[i + 1].op = "compute_embed_loss"
               => /\ data.cum_embed_loss[i + 1].count
                        = Cardinality(LossBatch) * (LossTotalSteps - i - 1)
                  /\ data.cum_embed_loss[i + 1].count > 0

====
